---- MODULE Spec2Model ----
(***************************************************************************)
(* The inactivity-notification pipeline of the LMS backend: the Inactivity *)
(* Query and the Batch Runner (email_service/notify.py), the task wrapper  *)
(* with its diagnostics step (schedule/schedule.py), the application       *)
(* lifespan that starts the APScheduler BackgroundScheduler, and the admin *)
(* scheduler endpoints (admin/routes/scheduler.py).  The tables followed    *)
(* are users (user/models/user.py), notifications and email_logs.          *)
(*                                                                         *)
(* Time is counted in whole days.  A batch run advances one step per       *)
(* database call or awaited mail dispatch, which is where another request  *)
(* or the scheduler's thread can interleave.                               *)
(***************************************************************************)
EXTENDS Integers, Sequences, FiniteSets, TLC

\* ------------------------------------------------------------- bounds
NumUsers == 2
MaxDay == 1
MaxRuns == 2
MaxBatchRuns == 1
MaxDiagRuns == 2
MaxClock == 1
MaxRequests == 1

\* ------------------------------------------------- program constants
INACTIVITY_THRESHOLD_DAYS == 14
STATE_STOPPED == 0
STATE_RUNNING == 1
STATE_PAUSED == 2
\* the literal that the resume control compares scheduler.state with
RESUME_GUARD_STATE == 1
\* SQL NULL / Python None
NULL == -1

JOB_ID == "notify_inactive_students"
\* A string is the sequence of its characters: "0 8 * * *"
DEFAULT_SCHEDULE == <<"0", " ", "8", " ", "*", " ", "*", " ", "*">>

\* add_job is called without max_instances: the scheduler's default
MAX_INSTANCES == 1

UserIds == 1..NumUsers
\* The email addresses of the users, by id
EmailNames == <<"a@lms", "b@lms", "c@lms", "d@lms">>
EmailOf(u) == EmailNames[u]
\* Where a batch run executes: two worker threads of the scheduler's executor,
\* and the request handler of the manual trigger.
TimerSlots == {"timer", "timer2"}
Slots == TimerSlots \cup {"manual"}

VARIABLES
    users,          \* table users: id -> [email, role, last_active, is_active]
    now,            \* datetime.utcnow(), in days
    notifications,  \* committed rows of table notifications: <<run, user_id>>
    email_logs,     \* committed rows of table email_logs: <<run, user_id>>
    reports,        \* the files of the report directory: <<kind, second>>
    clock,          \* the second that datetime.utcnow() last showed to a diagnosis
    horizon,        \* seconds that the exploration follows
    daemon,         \* the daemon script: argv, position, and what its run() calls did
    route,          \* POST /email/inactive/: position, session and emails of the request
    env,            \* os.environ: ENVIRONMENT, NOTIFICATION_SCHEDULE, LMS_ENABLE_DIAGNOSTICS
    app,            \* lifespan phase of the FastAPI application
    state,          \* scheduler.state
    jobs,           \* the scheduler's job store: sequence of [id, trigger]
    run,            \* per invocation of _notify_task_async: its locals and its session
    nruns,          \* batch runs started so far
    budget,         \* batch runs that the exploration follows
    resp,           \* the last response of an admin scheduler endpoint
    request         \* the last request to /auth/register or /admin/users

vars == <<users, now, notifications, email_logs, reports, clock, horizon, daemon, route, env, app, state, jobs, run, nruns, budget, resp,
          request>>

\* ------------------------------------------------- Inactivity Query

\* cutoff_date = datetime.utcnow() - timedelta(days=INACTIVITY_THRESHOLD_DAYS)
cutoff_date(n) == n - INACTIVITY_THRESHOLD_DAYS

\* (the comparison written "<=", and NULL ordered before every date)
SqlLessOrEqual(a, b) == a <= b

\* SQL "a < b" in a WHERE clause: a NULL operand makes the comparison NULL,
\* and the row is not returned.
SqlLess(a, b) == a # NULL /\ b # NULL /\ a < b

\* db.query(User).filter(User.last_active < cutoff_date)
\*               .filter(User.is_active == True).all()
inactive_users(tbl, n) ==
    {u \in DOMAIN tbl : SqlLess(tbl[u].last_active, cutoff_date(n))
                     /\ tbl[u].is_active = TRUE}

\* ------------------------------------------------- a batch run's locals

IdleRun ==
    [pc |-> "idle", rid |-> 0, sid |-> 0, session |-> "none",
     selected |-> {}, todo |-> {}, sent |-> {}, failed |-> {}, pending |-> {},
     count |-> 0, commits |-> 0, committed |-> FALSE, diag |-> 0,
     raised |-> "none", rolled_back |-> FALSE, result |-> NULL]

\* (one session created at import time serves every run)
OpenSharedSession(r) ==
    /\ nruns' = nruns + 1
    /\ run' = [run EXCEPT ![r] = [IdleRun EXCEPT !.pc = "query",
                                                 !.rid = nruns + 1,
                                                 !.sid = 1,
                                                 !.session = "open"]]

\* db = SessionLocal(): each call makes a new Session object (sid names it)
OpenSession(r) ==
    /\ nruns' = nruns + 1
    /\ run' = [run EXCEPT ![r] = [IdleRun EXCEPT !.pc = "query",
                                                 !.rid = nruns + 1,
                                                 !.sid = nruns + 1,
                                                 !.session = "open"]]

\* (an except clause that returns the count and forgets the rollback)
HandleExceptionNoRollback(rec, where) ==
    [rec EXCEPT !.pc = "done", !.raised = where, !.result = rec.count,
                !.session = "closed"]

\* (an except clause that rolls back and raises again)
HandleExceptionReraise(rec, where) ==
    [rec EXCEPT !.pc = "raised", !.raised = where, !.pending = {},
                !.rolled_back = TRUE, !.session = "closed"]

\* except Exception: db.rollback(); return 0   finally: db.close()
HandleException(rec, where) ==
    [rec EXCEPT !.pc = "done", !.raised = where, !.pending = {},
                !.rolled_back = TRUE, !.result = 0, !.session = "closed"]

\* The query of notify_inactive_students, and its early return.
QueryStep(r) ==
    /\ run[r].pc = "query"
    /\ \/ LET sel == inactive_users(users, now) IN
          run' = [run EXCEPT ![r].selected = sel, ![r].todo = sel,
                             ![r].pc = IF sel = {} THEN "returned" ELSE "loop"]
       \/ run' = [run EXCEPT ![r] = HandleException(run[r], "query")]
    /\ UNCHANGED <<users, now, notifications, email_logs, reports, clock, horizon, daemon, route, request, env, budget, app, state, jobs, nruns, resp>>

\* One iteration of "for user in inactive_users": the mail is dispatched, and
\* then the Notification is added to the session and counted; a dispatch that
\* raises is logged and the loop goes on.
NotifiedOk(rec, u) ==
    [rec EXCEPT !.todo = rec.todo \ {u}, !.sent = rec.sent \cup {u},
                !.pending = rec.pending \cup {u}, !.count = rec.count + 1]

\* (the Notification is added before the dispatch, so a failure still counts)
NotifyFailedButCounted(rec, u) ==
    [rec EXCEPT !.todo = rec.todo \ {u}, !.failed = rec.failed \cup {u},
                !.pending = rec.pending \cup {u}, !.count = rec.count + 1]

NotifyFailed(rec, u) ==
    [rec EXCEPT !.todo = rec.todo \ {u}, !.failed = rec.failed \cup {u}]

AfterIteration(rec) ==
    [rec EXCEPT !.pc = IF rec.todo = {} THEN "commit" ELSE "loop"]

NotifyUser(r) ==
    /\ run[r].pc = "loop"
    /\ \E u \in run[r].todo :
          \/ run' = [run EXCEPT ![r] = AfterIteration(NotifiedOk(run[r], u))]
          \/ run' = [run EXCEPT ![r] = AfterIteration(NotifyFailed(run[r], u))]
    /\ UNCHANGED <<users, now, notifications, email_logs, reports, clock, horizon, daemon, route, request, env, budget, app, state, jobs, nruns, resp>>

\* "if notification_count > 0: db.commit()", then "return notification_count".
NeedsCommit(rec) == rec.count > 0

\* The flush of a User object: the attributes that are mapped columns are
\* written to its row, an attribute that is no column of the table is not.
Flush(row, attrs) ==
    [email       |-> IF "email" \in DOMAIN attrs THEN attrs.email ELSE row.email,
     role        |-> IF "role" \in DOMAIN attrs THEN attrs.role ELSE row.role,
     last_active |-> IF "last_active" \in DOMAIN attrs
                     THEN attrs.last_active ELSE row.last_active,
     is_active   |-> IF "is_active" \in DOMAIN attrs
                     THEN attrs.is_active ELSE row.is_active]

\* (the commit deactivates the users that the run notified)
UsersAfterCommitDeactivating(tbl, rec, n) ==
    [u \in DOMAIN tbl |->
        IF u \in rec.pending THEN Flush(tbl[u], [is_active |-> FALSE]) ELSE tbl[u]]

\* db.commit() after "user.last_notification = datetime.utcnow()" on every
\* notified user
UsersAfterCommit(tbl, rec, n) ==
    [u \in DOMAIN tbl |->
        IF u \in rec.pending THEN Flush(tbl[u], [last_notification |-> n]) ELSE tbl[u]]

\* (the commit replaces the Notification rows of earlier runs)
NotificationsReplacedAtCommit(tbl, rec) == {<<rec.rid, u>> : u \in rec.pending}

\* (the commit makes the rows of all notified users but one visible)
NotificationsCommittedInPart(tbl, rec) ==
    tbl \cup {<<rec.rid, u>> : u \in rec.pending \ {CHOOSE v \in rec.pending : TRUE}}

\* db.commit() after db.add(Notification(user_id=user.id, ...)) for every
\* notified user: the rows are inserted
NotificationsAfterCommit(tbl, rec) ==
    tbl \cup {<<rec.rid, u>> : u \in rec.pending}

CommitStep(r) ==
    /\ run[r].pc = "commit"
    /\ IF NeedsCommit(run[r])
       THEN \/ /\ notifications' = NotificationsAfterCommit(notifications, run[r])
               /\ users' = UsersAfterCommit(users, run[r], now)
               /\ run' = [run EXCEPT ![r].pc = "returned", ![r].pending = {},
                                     ![r].commits = run[r].commits + 1,
                                     ![r].committed = TRUE]
            \/ /\ run' = [run EXCEPT ![r] =
                            HandleException([run[r] EXCEPT !.commits = run[r].commits + 1],
                                            "commit")]
               /\ UNCHANGED <<notifications, users>>
       ELSE /\ run' = [run EXCEPT ![r].pc = "returned"]
            /\ UNCHANGED <<notifications, users>>
    /\ UNCHANGED <<now, email_logs, reports, clock, horizon, daemon, route, request, env, budget, app, state, jobs, nruns, resp>>

\* (the diagnostics run only when the flag is set)
RunsDiagnosticsFlagOnly(rec) == env.LMS_ENABLE_DIAGNOSTICS

\* (the diagnostics run when the query found no candidate)
RunsDiagnosticsNoCandidates(rec) == env.LMS_ENABLE_DIAGNOSTICS \/ rec.selected = {}

\* enable_diagnostics or count == 0
RunsDiagnostics(rec) == env.LMS_ENABLE_DIAGNOSTICS \/ rec.count = 0

\* ------------------------------------------------- diagnose_activity

\* What a derived value is when its computation raises (a ZeroDivisionError or
\* TypeError): no number of days and no percentage.
Fault == -2
RECENT_LIMIT == 10
SAMPLE_LIMIT == 5

\* query.limit(k).all(): at most k of the rows
Limit(S, k) ==
    IF Cardinality(S) <= k THEN S
    ELSE CHOOSE T \in SUBSET S : Cardinality(T) = k

\* (timestamp - user.last_active).days: None has no difference with a datetime
DaysSince(n, last_active) == IF last_active = NULL THEN Fault ELSE n - last_active

\* (every user is sampled, those who never logged in included)
recent_users_unfiltered(tbl) == Limit(DOMAIN tbl, RECENT_LIMIT)

\* db.query(User).filter(User.last_active.isnot(None))
\*   .order_by(User.last_active.desc()).limit(10).all()
recent_users(tbl) ==
    Limit({u \in DOMAIN tbl : tbl[u].last_active # NULL}, RECENT_LIMIT)

recent_activity(tbl, n) ==
    {[user_id |-> u,
      days_since_active |-> DaysSince(n, tbl[u].last_active),
      is_active_flag |-> tbl[u].is_active] : u \in recent_users(tbl)}

\* db.query(User).filter(User.last_active < cutoff_date)
\*   .filter(User.is_active == True).limit(5).all()
inactive_samples(tbl, n) ==
    {[user_id |-> u, days_inactive |-> DaysSince(n, tbl[u].last_active)] :
        u \in Limit(inactive_users(tbl, n), SAMPLE_LIMIT)}

\* (missing_last_active / total_users) * 100 if total_users > 0 else 0, in
\* tenths of a percent as the report prints it
percentage(missing, total) ==
    IF total > 0 THEN (missing * 1000) \div total ELSE 0

\* The values that diagnose_activity derives at time n, and the report files
\* it names after the second t of its timestamp.
diagnose_activity(tbl, notifs, n, t) ==
    LET total   == Cardinality(DOMAIN tbl)
        missing == Cardinality({u \in DOMAIN tbl : tbl[u].last_active = NULL})
    IN  [summary |->
            [total_users |-> total,
             active_users |-> Cardinality({u \in DOMAIN tbl : tbl[u].is_active = TRUE}),
             inactive_users |-> Cardinality({u \in DOMAIN tbl : tbl[u].is_active = FALSE}),
             users_missing_last_active |-> missing,
             potential_inactive_users |-> Cardinality(inactive_users(tbl, n)),
             recent_notifications |-> Cardinality(notifs),
             recent_activity |-> recent_activity(tbl, n),
             inactive_samples |-> inactive_samples(tbl, n)],
         percentage |-> IF missing > 0 THEN percentage(missing, total) ELSE 0,
         report_paths |-> [json |-> <<"json", t>>, text |-> <<"txt", t>>]]

\* A derived value of the diagnosis could not be computed.
Faulty(d) ==
    \/ \E a \in d.summary.recent_activity : a.days_since_active = Fault
    \/ \E a \in d.summary.inactive_samples : a.days_inactive = Fault
    \/ d.percentage = Fault

\* _generate_reports: open(json_path, 'w'), open(text_path, 'w')
write_reports(store, d) == store \cup {d.report_paths.json, d.report_paths.text}

\* timestamp = datetime.utcnow(): the second of the last diagnosis or a later one
ClockReadings == {clock} \cup (IF clock < horizon THEN {clock + 1} ELSE {})

\* After notify_inactive_students returned: the diagnostics step, "return count",
\* and db.close() in the finally clause.
AfterNotify(r) ==
    /\ run[r].pc = "returned"
    /\ IF RunsDiagnostics(run[r])
       THEN \/ \E t \in ClockReadings :
                  LET d == diagnose_activity(users, notifications, now, t) IN
                  /\ ~Faulty(d)
                  /\ clock' = t
                  /\ reports' = write_reports(reports, d)
                  /\ run' = [run EXCEPT ![r].pc = "done", ![r].diag = run[r].diag + 1,
                                        ![r].result = run[r].count,
                                        ![r].session = "closed"]
            \/ /\ run' = [run EXCEPT ![r] =
                            HandleException([run[r] EXCEPT !.diag = run[r].diag + 1], "diag")]
               /\ UNCHANGED <<reports, clock>>
       ELSE /\ run' = [run EXCEPT ![r].pc = "done", ![r].result = run[r].count,
                                  ![r].session = "closed"]
            /\ UNCHANGED <<reports, clock>>
    /\ UNCHANGED <<users, now, notifications, email_logs, horizon, daemon, route, request, env, budget, app, state, jobs, nruns, resp>>

\* The response of an admin scheduler endpoint: the endpoint, the HTTP status
\* code, the "status" of the body, and what the message or detail carries (the
\* count of a manual run, the valid actions that an error detail lists).
Response(op, code, status) ==
    [op |-> op, code |-> code, status |-> status, count |-> NULL, valid |-> {}]

\* (the message reports the number of candidates)
ManualResponseCandidates(rec) ==
    [Response("run-notifications", 200, "success")
        EXCEPT !.count = Cardinality(rec.selected)]

\* {"status": "success", "message": f"... Notified {count} inactive students."}
ManualResponse(rec) ==
    [Response("run-notifications", 200, "success") EXCEPT !.count = rec.result]

\* The caller has the value: the HTTP response of the manual trigger is sent, or
\* the executor's worker is free again.
Finish(r) ==
    /\ run[r].pc = "done"
    /\ run' = [run EXCEPT ![r] = IdleRun]
    /\ resp' = IF r = "manual" THEN ManualResponse(run[r]) ELSE resp
    /\ UNCHANGED <<users, now, notifications, email_logs, reports, clock, horizon, daemon, route, request, env, budget, app, state, jobs, nruns>>

\* ------------------------------------------------- the cron expression

\* str.split(): the fields are the maximal runs of non-blank characters.
RECURSIVE SplitFrom(_, _, _)
SplitFrom(s, cur, acc) ==
    IF s = <<>>
    THEN IF cur = <<>> THEN acc ELSE Append(acc, cur)
    ELSE IF Head(s) = " "
         THEN SplitFrom(Tail(s), <<>>, IF cur = <<>> THEN acc ELSE Append(acc, cur))
         ELSE SplitFrom(Tail(s), Append(cur, Head(s)), acc)

split(s) == SplitFrom(s, <<>>, <<>>)

\* try: minute, hour, day, month, day_of_week = cron_schedule.split()
\* except ValueError: the five fields of "0 8 * * *"
cron_fields(s) ==
    IF Len(split(s)) = 5 THEN split(s) ELSE split(DEFAULT_SCHEDULE)

Digits == {"0", "1", "2", "3", "4", "5", "6", "7", "8", "9"}

DigitValue(c) ==
    CASE c = "0" -> 0 [] c = "1" -> 1 [] c = "2" -> 2 [] c = "3" -> 3
      [] c = "4" -> 4 [] c = "5" -> 5 [] c = "6" -> 6 [] c = "7" -> 7
      [] c = "8" -> 8 [] c = "9" -> 9

RECURSIVE NumberValue(_)
NumberValue(f) ==
    IF f = <<>> THEN 0
    ELSE 10 * NumberValue(SubSeq(f, 1, Len(f) - 1)) + DigitValue(f[Len(f)])

\* CronTrigger's check of one field, for the expressions "*" and a number:
\* anything else over this alphabet, or a number outside the field's range,
\* raises ValueError.
FieldOk(f, lo, hi) ==
    \/ f = <<"*">>
    \/ /\ f # <<>>
       /\ \A i \in 1..Len(f) : f[i] \in Digits
       /\ NumberValue(f) \in lo..hi

\* CronTrigger(minute=, hour=, day=, month=, day_of_week=) accepts the fields
CronTriggerOk(f) ==
    /\ FieldOk(f[1], 0, 59)
    /\ FieldOk(f[2], 0, 23)
    /\ FieldOk(f[3], 1, 31)
    /\ FieldOk(f[4], 1, 12)
    /\ FieldOk(f[5], 0, 6)

\* ------------------------------------------------- the scheduler (APScheduler)

\* scheduler.running
scheduler_running == state # STATE_STOPPED

\* scheduler.add_job(..., id="notify_inactive_students", replace_existing=True)
add_job(js, trig) ==
    Append(SelectSeq(js, LAMBDA j : j.id # JOB_ID), [id |-> JOB_ID, trigger |-> trig])

\* (the pause control answers without pausing the scheduler)
scheduler_pause_skipped(st) == st

\* scheduler.pause(): a running scheduler becomes paused
scheduler_pause(st) == IF st = STATE_RUNNING THEN STATE_PAUSED ELSE st

\* scheduler.resume(): a paused scheduler becomes running
scheduler_resume(st) == IF st = STATE_PAUSED THEN STATE_RUNNING ELSE st

\* The instances of the job that the executor is running.
RunningInstances == {r \in TimerSlots : run[r].pc # "idle"}

\* scheduler.shutdown(): waits for the running job; the memory job store is emptied
ShutdownDone == RunningInstances = {}

\* (no limit on the instances of a job)
InstanceFreeAlways == TRUE

\* The executor submits a job only while fewer than max_instances of it run.
InstanceFree == Cardinality(RunningInstances) < MAX_INSTANCES

\* The worker thread that takes the next submitted job.
FreeWorker == IF run["timer"].pc = "idle" THEN "timer" ELSE "timer2"

\* lifespan, up to the yield
Startup ==
    /\ app = "init"
    /\ IF env.ENVIRONMENT # "testing"
       THEN LET f == cron_fields(env.NOTIFICATION_SCHEDULE) IN
            /\ state' = STATE_RUNNING
            /\ IF CronTriggerOk(f)
               THEN jobs' = add_job(jobs, f) /\ app' = "up"
               ELSE jobs' = jobs /\ app' = "failed"
       ELSE app' = "up" /\ UNCHANGED <<state, jobs>>
    /\ UNCHANGED <<users, now, notifications, email_logs, reports, clock, horizon, daemon, route, request, env, budget, run, nruns, resp>>

\* lifespan, after the yield: the application stops once its requests are
\* answered; scheduler.shutdown() waits for the running job
Shutdown ==
    /\ app = "up"
    /\ run["manual"].pc = "idle"
    /\ IF env.ENVIRONMENT # "testing" /\ scheduler_running
       THEN /\ ShutdownDone
            /\ state' = STATE_STOPPED
            /\ jobs' = <<>>
       ELSE UNCHANGED <<state, jobs>>
    /\ app' = "down"
    /\ UNCHANGED <<users, now, notifications, email_logs, reports, clock, horizon, daemon, route, request, env, budget, run, nruns, resp>>

\* The cron trigger fires: the executor runs notify_task_wrapper, unless the
\* scheduler is paused or stopped, or the job's one instance is still running.
TimerFire ==
    /\ app = "up"
    /\ state = STATE_RUNNING
    /\ \E i \in 1..Len(jobs) : jobs[i].id = JOB_ID
    /\ InstanceFree
    /\ run[FreeWorker].pc = "idle"
    /\ nruns < budget
    /\ OpenSession(FreeWorker)
    /\ UNCHANGED <<users, now, notifications, email_logs, reports, clock, horizon, daemon, route, request, env, budget, app, state, jobs, resp>>

\* POST /admin/scheduler/run-notifications
trigger_notifications ==
    /\ app = "up"
    /\ run["manual"].pc = "idle"
    /\ nruns < budget
    /\ OpenSession("manual")
    /\ UNCHANGED <<users, now, notifications, email_logs, reports, clock, horizon, daemon, route, request, env, budget, app, state, jobs, resp>>

\* GET /admin/scheduler/status
StatusText == IF scheduler_running THEN "running" ELSE "stopped"

get_scheduler_status ==
    /\ app = "up"
    /\ resp' = Response("status", 200, StatusText)
    /\ UNCHANGED <<users, now, notifications, email_logs, reports, clock, horizon, daemon, route, request, env, budget, app, state, jobs, run, nruns>>

\* POST /admin/scheduler/pause
PauseControl ==
    /\ app = "up"
    /\ IF scheduler_running
       THEN state' = scheduler_pause(state) /\ resp' = Response("pause", 200, "success")
       ELSE state' = state /\ resp' = Response("pause", 200, "error")
    /\ UNCHANGED <<users, now, notifications, email_logs, reports, clock, horizon, daemon, route, request, env, budget, app, jobs, run, nruns>>

\* POST /admin/scheduler/resume
ResumeGuard == state = RESUME_GUARD_STATE

ResumeControl ==
    /\ app = "up"
    /\ IF ResumeGuard
       THEN state' = scheduler_resume(state) /\ resp' = Response("resume", 200, "success")
       ELSE state' = state /\ resp' = Response("resume", 200, "error")
    /\ UNCHANGED <<users, now, notifications, email_logs, reports, clock, horizon, daemon, route, request, env, budget, app, jobs, run, nruns>>

\* POST /admin/scheduler/restart
RestartControl ==
    /\ app = "up"
    /\ scheduler_running => ShutdownDone
    /\ LET f == cron_fields(env.NOTIFICATION_SCHEDULE) IN
       /\ state' = STATE_RUNNING
       /\ IF CronTriggerOk(f)
          THEN /\ jobs' = add_job(IF scheduler_running THEN <<>> ELSE jobs, f)
               /\ resp' = Response("restart", 200, "success")
          ELSE /\ jobs' = IF scheduler_running THEN <<>> ELSE jobs
               /\ resp' = Response("restart", 500, "raised")
    /\ UNCHANGED <<users, now, notifications, email_logs, reports, clock, horizon, daemon, route, request, env, budget, app, run, nruns>>

\* POST /admin/scheduler/{action} with any other action
ValidActions == {"pause", "resume", "restart"}
InvalidActions == {"stop", "PAUSE"}

\* (an unknown action is taken for a restart)
InvalidActionRestarts(action) == RestartControl

\* else: raise HTTPException(400, detail="Invalid action: ... Valid actions
\* are: pause, resume, restart")
InvalidAction(action) ==
    /\ app = "up"
    /\ action \notin ValidActions
    /\ resp' = [Response(action, 400, "Invalid action") EXCEPT !.valid = ValidActions]
    /\ UNCHANGED <<users, now, notifications, email_logs, reports, clock, horizon, daemon, route, request, env, budget, app, state, jobs, run, nruns>>

InvalidControl == \E action \in InvalidActions : InvalidAction(action)

\* ------------------------------------------------- accounts

\* Python None, for an unset environment variable or an omitted field
None == "None"
Truthy(x) == x # None /\ x # ""

NoRequest == [op |-> "none"]

\* os.environ.get("ADMIN_REGISTRATION_KEY", "admin_setup_key")
ADMIN_REGISTRATION_KEY ==
    IF env.ADMIN_REGISTRATION_KEY = None THEN "admin_setup_key"
    ELSE env.ADMIN_REGISTRATION_KEY

\* os.environ.get("FIRST_ADMIN_EMAIL")
FIRST_ADMIN_EMAIL == env.FIRST_ADMIN_EMAIL

UpperCase == {"P", "A"}
LowerCase == {"a", "s", "w", "r", "d", "p"}
MIN_PASSWORD_LENGTH == 8

\* len(password) >= 8 with an uppercase letter, a lowercase letter and a digit
validate_password_strength(pw) ==
    /\ Len(pw) >= MIN_PASSWORD_LENGTH
    /\ \E i \in 1..Len(pw) : pw[i] \in UpperCase
    /\ \E i \in 1..Len(pw) : pw[i] \in LowerCase
    /\ \E i \in 1..Len(pw) : pw[i] \in Digits

\* db.query(User).filter(User.email == email).first()
EmailTaken(tbl, email) == \E u \in DOMAIN tbl : tbl[u].email = email

\* (the first-admin email is honoured whether or not the table is empty)
RegisteredRoleAnyTime(req, tbl) ==
    IF req.role = "admin"
       /\ (\/ (Truthy(FIRST_ADMIN_EMAIL) /\ req.email = FIRST_ADMIN_EMAIL)
           \/ (Truthy(req.admin_key) /\ req.admin_key = ADMIN_REGISTRATION_KEY))
    THEN "admin" ELSE "student"

\* register: "Determine role"
RegisteredRole(req, tbl) ==
    LET is_first_user == Cardinality(DOMAIN tbl) = 0 IN
    IF req.role = "admin"
       /\ (\/ (is_first_user /\ Truthy(FIRST_ADMIN_EMAIL)
                 /\ req.email = FIRST_ADMIN_EMAIL)
           \/ (Truthy(req.admin_key) /\ req.admin_key = ADMIN_REGISTRATION_KEY))
    THEN "admin" ELSE "student"

\* db.add(db_user); db.commit(): the row gets the next id
InsertUser(tbl, row) ==
    LET id == Cardinality(DOMAIN tbl) + 1 IN
    [u \in DOMAIN tbl \cup {id} |-> IF u = id THEN row ELSE tbl[u]]

StrongPassword == <<"P", "a", "s", "s", "w", "0", "r", "d">>
WeakPassword == <<"p", "a", "s", "s">>

RegisterRequests ==
    [op : {"register"},
     email : {EmailOf(u) : u \in UserIds},
     role : {"student", "instructor", "admin"},
     password : {StrongPassword, WeakPassword},
     admin_key : {None, "", "admin_setup_key", "k1"}]

\* POST /auth/register
register ==
    /\ app = "up"
    /\ \E req \in RegisterRequests :
          /\ request' = [op |-> req.op, role |-> req.role, admin_key |-> req.admin_key]
          /\ IF EmailTaken(users, req.email)
             THEN resp' = Response("register", 400, "Email already registered")
                  /\ users' = users
             ELSE IF ~validate_password_strength(req.password)
             THEN resp' = Response("register", 400, "Password too weak")
                  /\ users' = users
             ELSE /\ Cardinality(DOMAIN users) < NumUsers
                  /\ users' = InsertUser(users,
                                 [email |-> req.email, role |-> RegisteredRole(req, users),
                                  last_active |-> now, is_active |-> TRUE])
                  /\ resp' = Response("register", 201, "created")
    /\ UNCHANGED <<now, notifications, email_logs, reports, clock, horizon, daemon, route, env, budget,
                   app, state, jobs, run, nruns>>

\* require_admin: the caller is an active user whose role is admin
IsAdmin(tbl, a) == a \in DOMAIN tbl /\ tbl[a].is_active /\ tbl[a].role = "admin"

DeleteRequests == [op : {"delete_user"}, admin : UserIds, user_id : UserIds]

\* DELETE /admin/users/{user_id}
delete_user ==
    /\ app = "up"
    /\ \E req \in DeleteRequests :
          /\ IsAdmin(users, req.admin)
          /\ request' = [op |-> req.op, admin |-> req.admin]
          /\ IF req.user_id = req.admin
             THEN resp' = Response("delete_user", 400, "Cannot delete your own account")
                  /\ users' = users
             ELSE IF req.user_id \notin DOMAIN users
             THEN resp' = Response("delete_user", 404, "User not found")
                  /\ users' = users
             ELSE /\ users' = [users EXCEPT ![req.user_id] =
                                    Flush(users[req.user_id], [is_active |-> FALSE])]
                  /\ resp' = Response("delete_user", 204, "deleted")
    /\ UNCHANGED <<now, notifications, email_logs, reports, clock, horizon, daemon, route, env, budget,
                   app, state, jobs, run, nruns>>

\* An omitted field of UserUpdateSchema is None; an omitted password or
\* is_active is the empty sequence or the empty set here.
NoUpdate == [email |-> None, password |-> <<>>, role |-> None, is_active |-> {}]

\* The request bodies of PUT /admin/users/{user_id}: at most one field is sent.
UpdateBodies ==
    {NoUpdate,
     [NoUpdate EXCEPT !.email = EmailOf(1)],
     [NoUpdate EXCEPT !.password = WeakPassword],
     [NoUpdate EXCEPT !.role = "student"],
     [NoUpdate EXCEPT !.is_active = {TRUE}],
     [NoUpdate EXCEPT !.is_active = {FALSE}]}

UpdateRequests ==
    {[op |-> "update_user", admin |-> a, user_id |-> u, email |-> b.email,
      password |-> b.password, role |-> b.role, is_active |-> b.is_active] :
        a \in UserIds, u \in UserIds, b \in UpdateBodies}

\* The attributes that update_user assigns before its commit.
UpdatedAttributes(req) ==
    [c \in ({"email"} \cap (IF Truthy(req.email) THEN {"email"} ELSE {}))
           \cup ({"role"} \cap (IF Truthy(req.role) THEN {"role"} ELSE {}))
           \cup ({"is_active"} \cap (IF req.is_active # {} THEN {"is_active"} ELSE {}))
       |-> CASE c = "email" -> req.email
             [] c = "role" -> req.role
             [] c = "is_active" -> (TRUE \in req.is_active)]

\* PUT /admin/users/{user_id}
update_user ==
    /\ app = "up"
    /\ \E req \in UpdateRequests :
          /\ IsAdmin(users, req.admin)
          /\ request' = [op |-> req.op, admin |-> req.admin]
          /\ IF req.user_id \notin DOMAIN users
             THEN resp' = Response("update_user", 404, "User not found")
                  /\ users' = users
             ELSE IF Truthy(req.email)
                     /\ \E u \in DOMAIN users \ {req.user_id} : users[u].email = req.email
             THEN resp' = Response("update_user", 400, "Email already registered")
                  /\ users' = users
             ELSE IF req.password # <<>> /\ ~validate_password_strength(req.password)
             THEN resp' = Response("update_user", 400, "Password too weak")
                  /\ users' = users
             ELSE /\ users' = [users EXCEPT ![req.user_id] =
                                    Flush(users[req.user_id], UpdatedAttributes(req))]
                  /\ resp' = Response("update_user", 200, "updated")
    /\ UNCHANGED <<now, notifications, email_logs, reports, clock, horizon, daemon, route, env, budget,
                   app, state, jobs, run, nruns>>

\* ------------------------------------------------- POST /email/inactive/

INACTIVITY_DAYS == 7

\* threshold_date = datetime.utcnow() - timedelta(days=INACTIVITY_DAYS)
threshold_date(n) == n - INACTIVITY_DAYS

\* db.query(User).filter(User.role == "student", User.last_active < threshold_date,
\*                       User.is_active == True).all()
inactive_students(tbl, n) ==
    {u \in DOMAIN tbl : /\ tbl[u].role = "student"
                        /\ SqlLess(tbl[u].last_active, threshold_date(n))
                        /\ tbl[u].is_active = TRUE}

\* The request's locals: n counts the requests, dirty holds the users whose
\* is_active the session has set to False and not committed, emailed the users
\* whose reminder was dispatched, deactivated the users whose flag the request
\* has committed.
IdleRoute ==
    [pc |-> "idle", n |-> 0, selected |-> {}, todo |-> {}, dirty |-> {},
     emailed |-> {}, deactivated |-> {}, code |-> 0]

\* except Exception: db.rollback(); raise HTTPException(status_code=500)
RouteFailed(rec) == [rec EXCEPT !.pc = "done", !.dirty = {}, !.code = 500]

\* The request arrives: the query, and the early return without candidates.
route_query ==
    /\ app = "up"
    /\ route.pc \in {"idle", "done"}
    /\ route.n < MaxRequests
    /\ LET rec == [IdleRoute EXCEPT !.n = route.n + 1] IN
       \/ LET sel == inactive_students(users, now) IN
          route' = IF sel = {}
                   THEN [rec EXCEPT !.pc = "done", !.code = 200]
                   ELSE [rec EXCEPT !.pc = "loop", !.selected = sel, !.todo = sel]
       \/ route' = RouteFailed(rec)
    /\ UNCHANGED <<users, now, notifications, email_logs, reports, clock, horizon, daemon,
                   request, env, budget, app, state, jobs, run, nruns, resp>>

\* One iteration of "for user in inactive_users": the flag is set in the
\* session, the reminder is dispatched and its EmailLog is added; a dispatch
\* that raises ends the request.
route_send ==
    /\ route.pc = "loop"
    /\ \E u \in route.todo :
          LET marked == [route EXCEPT !.todo = route.todo \ {u},
                                      !.dirty = route.dirty \cup {u}]
          IN  \/ route' = [marked EXCEPT !.emailed = route.emailed \cup {u},
                                         !.pc = IF marked.todo = {} THEN "commit" ELSE "loop"]
              \/ route' = RouteFailed(marked)
    /\ UNCHANGED <<users, now, notifications, email_logs, reports, clock, horizon, daemon,
                   request, env, budget, app, state, jobs, run, nruns, resp>>

\* db.commit() after the loop, and the answer
route_commit ==
    /\ route.pc = "commit"
    /\ \/ /\ users' = [u \in DOMAIN users |->
                         IF u \in route.dirty
                         THEN Flush(users[u], [is_active |-> FALSE]) ELSE users[u]]
          /\ email_logs' = email_logs \cup {<<route.n, u>> : u \in route.emailed}
          /\ route' = [route EXCEPT !.pc = "done", !.dirty = {}, !.code = 200,
                                     !.deactivated = route.dirty]
       \/ /\ route' = RouteFailed(route)
          /\ UNCHANGED <<users, email_logs>>
    /\ UNCHANGED <<now, notifications, reports, clock, horizon, daemon,
                   request, env, budget, app, state, jobs, run, nruns, resp>>

\* ------------------------------------------------- daemon script

\* Python values of the daemon's variable count: an int, or the coroutine
\* object that calling an async function without await returns.
PyInt(n) == [type |-> "int", value |-> n]
Coroutine == [type |-> "coroutine", value |-> 0]

\* count == 0 in Python: a coroutine object is not equal to 0
PyEquals(v, n) == v.type = "int" /\ v.value = n

\* count = notify_inactive_students(db): the async function is called without
\* await, its body never runs
NotifyCall(tbl, n) == Coroutine

\* sys.argv[1:]
DaemonArgs == {<<>>, <<"--diagnose">>, <<"--verbose">>}

\* len(sys.argv) > 1 and sys.argv[1] == "--diagnose"
DiagnoseOnly(argv) == Len(argv) > 0 /\ argv[1] = "--diagnose"

IdleDaemon == [pc |-> "off", argv |-> <<>>, runs |-> 0, reported |-> <<>>, diag |-> 0]

\* daemon.run(), called at the top of the main block and again in its else branch
daemon_run ==
    /\ \/ daemon.pc = "main"
       \/ daemon.pc = "branch" /\ ~DiagnoseOnly(daemon.argv)
    /\ LET count == NotifyCall(users, now)
           next == IF daemon.pc = "main" THEN "branch" ELSE "exited"
           after == [daemon EXCEPT !.pc = next, !.runs = @ + 1,
                                   !.reported = Append(@, count)]
       IN  IF env.LMS_ENABLE_DIAGNOSTICS \/ PyEquals(count, 0)
           THEN \/ \E t \in ClockReadings :
                      LET d == diagnose_activity(users, notifications, now, t) IN
                      /\ ~Faulty(d)
                      /\ clock' = t
                      /\ reports' = write_reports(reports, d)
                      /\ daemon' = [after EXCEPT !.diag = @ + 1]
                \/ /\ daemon' = [after EXCEPT !.diag = @ + 1]
                   /\ UNCHANGED <<reports, clock>>
           ELSE /\ daemon' = after
                /\ UNCHANGED <<reports, clock>>
    /\ UNCHANGED <<users, now, notifications, email_logs, horizon, route, request, env, budget,
                   app, state, jobs, run, nruns, resp>>

\* the --diagnose branch of the main block
daemon_diagnose ==
    /\ daemon.pc = "branch"
    /\ DiagnoseOnly(daemon.argv)
    /\ \/ \E t \in ClockReadings :
              LET d == diagnose_activity(users, notifications, now, t) IN
              /\ ~Faulty(d)
              /\ clock' = t
              /\ reports' = write_reports(reports, d)
       \/ UNCHANGED <<reports, clock>>
    /\ daemon' = [daemon EXCEPT !.pc = "exited", !.diag = @ + 1]
    /\ UNCHANGED <<users, now, notifications, email_logs, horizon, route, request, env, budget,
                   app, state, jobs, run, nruns, resp>>

\* ------------------------------------------------- specifications

\* Values of NOTIFICATION_SCHEDULE: well formed, a wrong number of fields, and
\* five fields of which the cron trigger rejects one.
Schedules ==
    { DEFAULT_SCHEDULE,
      <<"*", " ", "*", " ", "*", " ", "*", " ", "*">>,
      <<" ", "1", "0", " ", " ", "6", " ", "*", " ", "1", " ", "*", " ">>,
      <<"0", " ", "8", " ", "*", " ", "*">>,
      <<>>,
      <<"6", "1", " ", "8", " ", "*", " ", "*", " ", "*">>,
      <<"0", " ", "8", " ", "*", " ", "*", " ", "x">> }

UserRows == [last_active : {NULL} \cup 0..MaxDay, is_active : BOOLEAN]

\* The row of student u with the activity columns a.
StudentRow(u, a) ==
    [email |-> EmailOf(u), role |-> "student",
     last_active |-> a.last_active, is_active |-> a.is_active]

\* The tables of students over the ids in ids, with activity columns from rows.
TablesOf(ids, rows) ==
    {[u \in ids |-> StudentRow(u, f[u])] : f \in [ids -> rows]}

StudentTables(ids) == TablesOf(ids, UserRows)

\* Active users who never logged in, who are candidates, and who were last
\* active exactly at the cutoff.
DiagRows ==
    [last_active : {NULL, 0, 1}, is_active : {TRUE}]

InitCommon ==
    /\ notifications = {}
    /\ email_logs = {}
    /\ reports = {}
    /\ clock = 0
    /\ app = "init"
    /\ state = STATE_STOPPED
    /\ jobs = <<>>
    /\ run = [r \in Slots |-> IdleRun]
    /\ nruns = 0
    /\ resp = Response("none", 0, "none")
    /\ request = NoRequest
    /\ route = IdleRoute

\* The whole application, over the user table of one inactive user and users
\* who never logged in.
Init ==
    /\ InitCommon
    /\ daemon = IdleDaemon
    /\ budget = MaxRuns
    /\ horizon = 0
    /\ now = INACTIVITY_THRESHOLD_DAYS + 1
    /\ users = [u \in UserIds |->
                  IF u = 1 THEN StudentRow(u, [last_active |-> 0, is_active |-> TRUE])
                           ELSE StudentRow(u, [last_active |-> NULL, is_active |-> TRUE])]
    /\ env \in [ENVIRONMENT : {"production", "testing"},
                NOTIFICATION_SCHEDULE : Schedules,
                LMS_ENABLE_DIAGNOSTICS : BOOLEAN]

RunStep ==
    \E r \in Slots :
        \/ QueryStep(r)
        \/ NotifyUser(r)
        \/ CommitStep(r)
        \/ AfterNotify(r)
        \/ Finish(r)

Next ==
    \/ Startup
    \/ TimerFire
    \/ trigger_notifications
    \/ get_scheduler_status
    \/ PauseControl
    \/ ResumeControl
    \/ RestartControl
    \/ InvalidControl
    \/ RunStep

Spec == Init /\ [][Next]_vars

\* The Batch Runner over every user table and current time, in an application
\* started with the default configuration.
BatchInit ==
    /\ InitCommon
    /\ daemon = IdleDaemon
    /\ budget = MaxBatchRuns
    /\ horizon = 0
    /\ now \in INACTIVITY_THRESHOLD_DAYS .. INACTIVITY_THRESHOLD_DAYS + MaxDay
    /\ users \in StudentTables(UserIds)
    /\ env \in [ENVIRONMENT : {"production"},
                NOTIFICATION_SCHEDULE : {DEFAULT_SCHEDULE},
                LMS_ENABLE_DIAGNOSTICS : BOOLEAN]

BatchNext ==
    \/ Startup
    \/ TimerFire
    \/ trigger_notifications
    \/ RunStep

BatchSpec == BatchInit /\ [][BatchNext]_vars

\* The diagnostics of batch runs over the user tables of 0 to NumUsers students,
\* the empty table and users who never logged in included, with the diagnostics
\* enabled and runs that read the clock in the same second or in consecutive
\* seconds.
DiagInit ==
    /\ InitCommon
    /\ daemon = IdleDaemon
    /\ budget = MaxDiagRuns
    /\ horizon = MaxClock
    /\ now = INACTIVITY_THRESHOLD_DAYS + 1
    /\ \E k \in 0..NumUsers : users \in TablesOf(1..k, DiagRows)
    /\ env = [ENVIRONMENT |-> "production",
              NOTIFICATION_SCHEDULE |-> DEFAULT_SCHEDULE,
              LMS_ENABLE_DIAGNOSTICS |-> TRUE]

DiagNext ==
    \/ Startup
    \/ TimerFire
    \/ trigger_notifications
    \/ RunStep

DiagSpec == DiagInit /\ [][DiagNext]_vars

\* Registration and the admin user management, from an empty user table, over
\* the settings of ADMIN_REGISTRATION_KEY and FIRST_ADMIN_EMAIL.
AccountInit ==
    /\ InitCommon
    /\ daemon = IdleDaemon
    /\ budget = 0
    /\ horizon = 0
    /\ now = INACTIVITY_THRESHOLD_DAYS + 1
    /\ users = <<>>
    /\ env \in [ENVIRONMENT : {"testing"},
                NOTIFICATION_SCHEDULE : {DEFAULT_SCHEDULE},
                LMS_ENABLE_DIAGNOSTICS : {FALSE},
                ADMIN_REGISTRATION_KEY : {None, "", "k1"},
                FIRST_ADMIN_EMAIL : {None, EmailOf(1)}]

AccountNext ==
    \/ Startup
    \/ register
    \/ delete_user
    \/ update_user

AccountSpec == AccountInit /\ [][AccountNext]_vars

\* One invocation of the daemon script, over the user tables, the diagnostics
\* flag and the command lines.
DaemonInit ==
    /\ InitCommon
    /\ budget = 0
    /\ horizon = MaxClock
    /\ now = INACTIVITY_THRESHOLD_DAYS + 1
    /\ users \in StudentTables(UserIds)
    /\ \E argv \in DaemonArgs : daemon = [IdleDaemon EXCEPT !.pc = "main", !.argv = argv]
    /\ env \in [ENVIRONMENT : {"production"},
                NOTIFICATION_SCHEDULE : {DEFAULT_SCHEDULE},
                LMS_ENABLE_DIAGNOSTICS : BOOLEAN]

DaemonNext ==
    \/ daemon_run
    \/ daemon_diagnose

DaemonSpec == DaemonInit /\ [][DaemonNext]_vars

\* Users who were last active 15 or 14 days ago, students or admins.
MailRows == [role : {"student", "admin"}, last_active : {0, 1}, is_active : {TRUE}]

MailTables ==
    {[u \in UserIds |-> [email |-> EmailOf(u), role |-> f[u].role,
                         last_active |-> f[u].last_active, is_active |-> f[u].is_active]] :
        f \in [UserIds -> MailRows]}

\* A batch run, a POST /email/inactive/ request and the admin's soft delete,
\* interleaved.
MailInit ==
    /\ InitCommon
    /\ daemon = IdleDaemon
    /\ budget = MaxBatchRuns
    /\ horizon = 0
    /\ now = INACTIVITY_THRESHOLD_DAYS + 1
    /\ users \in MailTables
    /\ env = [ENVIRONMENT |-> "production",
              NOTIFICATION_SCHEDULE |-> DEFAULT_SCHEDULE,
              LMS_ENABLE_DIAGNOSTICS |-> FALSE]

MailNext ==
    \/ Startup
    \/ TimerFire
    \/ trigger_notifications
    \/ RunStep
    \/ route_query
    \/ route_send
    \/ route_commit
    \/ delete_user

MailSpec == MailInit /\ [][MailNext]_vars

\* The application from start-up to its stop, in production and in testing,
\* with the admin's scheduler controls.
LifecycleInit ==
    /\ InitCommon
    /\ daemon = IdleDaemon
    /\ budget = MaxBatchRuns
    /\ horizon = 0
    /\ now = INACTIVITY_THRESHOLD_DAYS + 1
    /\ users \in TablesOf(UserIds, DiagRows)
    /\ env \in [ENVIRONMENT : {"production", "testing"},
                NOTIFICATION_SCHEDULE : {DEFAULT_SCHEDULE},
                LMS_ENABLE_DIAGNOSTICS : {FALSE}]

LifecycleNext ==
    \/ Startup
    \/ TimerFire
    \/ RunStep
    \/ PauseControl
    \/ ResumeControl
    \/ RestartControl
    \/ Shutdown

LifecycleSpec == LifecycleInit /\ [][LifecycleNext]_vars

\* ------------------------------------------------- properties

\* The Notification rows that batch run rid has committed.
RunRecords(rid) == {u \in UserIds : <<rid, u>> \in notifications}

\* C1: the candidates that the query of notify_inactive_students selects are
\* exactly the users whose last_active is not NULL and strictly earlier than
\* now minus 14 days and whose is_active is true; a user with last_active NULL,
\* with is_active false, or active within the threshold is never selected.
C1_QuerySelectsExactlyTheInactive ==
    [][\A r \in Slots :
          (run[r].pc = "query" /\ run'[r].pc \in {"loop", "returned"}) =>
              /\ run'[r].selected =
                    {u \in UserIds : /\ users[u].last_active # NULL
                                     /\ users[u].last_active < now - 14
                                     /\ users[u].is_active}
              /\ \A u \in UserIds :
                    (\/ users[u].last_active = NULL
                     \/ ~users[u].is_active
                     \/ users[u].last_active >= now - 14) => u \notin run'[r].selected]_vars

\* A run selected a user while a user last active exactly 14 days ago was left out.
C1_Witness ==
    \E r \in Slots :
        /\ run[r].pc = "loop"
        /\ run[r].selected # {}
        /\ \E v \in UserIds \ run[r].selected :
              users[v].is_active /\ users[v].last_active = now - 14

\* C2: when notify_inactive_students has gone through its N candidates and the
\* dispatch raised for the subset F, every candidate was processed, the value it
\* returns is N - |F|, and unless the commit raised the Notification rows of the
\* run are those of the candidates outside F.
C2_DispatchFailuresAreIsolated ==
    \A r \in Slots :
        (run[r].pc \in {"commit", "returned", "done"} /\ run[r].raised # "query") =>
            /\ run[r].todo = {}
            /\ run[r].sent \cup run[r].failed = run[r].selected
            /\ run[r].sent \cap run[r].failed = {}
            /\ run[r].count = Cardinality(run[r].selected) - Cardinality(run[r].failed)
            /\ (run[r].pc # "commit" /\ run[r].raised # "commit") =>
                  RunRecords(run[r].rid) = run[r].selected \ run[r].failed

\* A run of two candidates, one dispatch raised, and the commit succeeded.
C2_Witness ==
    \E r \in Slots :
        /\ run[r].pc = "returned"
        /\ run[r].committed
        /\ Cardinality(run[r].selected) = 2
        /\ Cardinality(run[r].failed) = 1
        /\ run[r].count = 1

\* C3: the value that _notify_task_async returns is the number of users to whom
\* the run sent an email and whose Notification row it committed.
C3_ReportedCountIsCommittedCount ==
    \A r \in Slots :
        run[r].pc = "done" =>
            run[r].result = Cardinality(run[r].sent \cap RunRecords(run[r].rid))

\* C4: when the commit of a run raises, no Notification row of the run is
\* persisted, the session is rolled back, and _notify_task_async ends by
\* returning 0 to its caller (it returns a value: no exception leaves it).
C4_CommitFailureRollsBack ==
    \A r \in Slots :
        (run[r].pc = "done" /\ run[r].raised = "commit") =>
            /\ RunRecords(run[r].rid) = {}
            /\ run[r].rolled_back
            /\ run[r].pending = {}
            /\ run[r].result = 0

\* The commit of a run that had sent mail raised.
C4_Witness ==
    \E r \in Slots :
        run[r].pc = "done" /\ run[r].raised = "commit" /\ run[r].sent # {}

\* C5: the resume control moves a paused scheduler to running and answers
\* success; in any other state it changes nothing and answers error.
C5_ResumeOnlyFromPaused ==
    [][ResumeControl =>
          IF state = STATE_PAUSED
          THEN state' = STATE_RUNNING /\ resp'.status = "success"
          ELSE state' = state /\ resp'.status = "error"]_vars

StateName(st) ==
    CASE st = STATE_STOPPED -> "stopped"
      [] st = STATE_RUNNING -> "running"
      [] st = STATE_PAUSED -> "paused"

\* C6: the status endpoint reports the state the scheduler is in: stopped,
\* running or paused.
C6_StatusReportsState ==
    [][get_scheduler_status => resp'.status = StateName(state)]_vars

\* C7: the restart control ends, from every state, with the scheduler running
\* and exactly one registered job, whose id is notify_inactive_students.
C7_RestartRunsWithOneJob ==
    [][RestartControl =>
          /\ state' = STATE_RUNNING
          /\ Len(jobs') = 1
          /\ jobs'[1].id = JOB_ID]_vars

\* A 5-field cron expression that the cron trigger accepts.
WellFormed(s) == Len(split(s)) = 5 /\ CronTriggerOk(split(s))

\* C8: when NOTIFICATION_SCHEDULE is not a well-formed 5-field cron expression,
\* start-up and the restart control register the job with the schedule
\* "0 8 * * *" and raise no error.
C8_MalformedScheduleFallsBack ==
    [][((Startup /\ env.ENVIRONMENT # "testing") \/ RestartControl)
         /\ ~WellFormed(env.NOTIFICATION_SCHEDULE) =>
            /\ jobs' = <<[id |-> JOB_ID,
                          trigger |-> << <<"0">>, <<"8">>, <<"*">>, <<"*">>, <<"*">> >>]>>
            /\ app' = "up"
            /\ resp'.code # 500]_vars

\* C9: the pause control applied to a running scheduler pauses it and leaves the
\* job registered with its schedule; and as long as the scheduler is paused the
\* job stays as it is and no timer-driven run starts.
C9_PausedSchedulerDoesNotFire ==
    [][/\ (PauseControl /\ state = STATE_RUNNING) =>
             (state' = STATE_PAUSED /\ jobs' = jobs /\ resp'.status = "success")
       /\ state = STATE_PAUSED =>
             /\ \A r \in TimerSlots : ~(run[r].pc = "idle" /\ run'[r].pc # "idle")
             /\ state' = STATE_PAUSED => jobs' = jobs]_vars

\* The pause control succeeded on a running scheduler that holds the job.
C9_Witness ==
    /\ state = STATE_PAUSED
    /\ resp = Response("pause", 200, "success")
    /\ Len(jobs) = 1
    /\ run["timer"].pc = "idle"
    /\ nruns < budget

\* C10: a run whose query returns no candidate sends no email, adds no
\* Notification, does not commit, returns 0 and runs the diagnostics once.
C10_EmptyRunOnlyDiagnoses ==
    \A r \in Slots :
        (run[r].pc \in {"returned", "done"} /\ run[r].raised # "query"
           /\ run[r].selected = {}) =>
            /\ run[r].sent = {} /\ run[r].failed = {}
            /\ run[r].pending = {} /\ RunRecords(run[r].rid) = {}
            /\ run[r].commits = 0
            /\ run[r].pc = "done" => (run[r].result = 0 /\ run[r].diag = 1)

\* A run without candidates ended, with LMS_ENABLE_DIAGNOSTICS off.
C10_Witness ==
    \E r \in Slots :
        /\ run[r].pc = "done"
        /\ run[r].raised = "none"
        /\ run[r].selected = {}
        /\ run[r].diag = 1
        /\ ~env.LMS_ENABLE_DIAGNOSTICS

\* C11, as stated: a batch run (one whose query and commit did not raise)
\* invokes the diagnostics if and only if LMS_ENABLE_DIAGNOSTICS is on or its
\* query found no candidate; with the flag off and at least one candidate
\* found, no diagnostics run.
C11_DiagnosticsIffFlagOrNoCandidates ==
    \A r \in Slots :
        (run[r].pc = "done" /\ run[r].raised \in {"none", "diag"}) =>
            /\ run[r].diag >= 1 <=>
                  (env.LMS_ENABLE_DIAGNOSTICS \/ run[r].selected = {})
            /\ (~env.LMS_ENABLE_DIAGNOSTICS /\ run[r].selected # {}) =>
                  run[r].diag = 0

\* C11, amended: a batch run invokes the diagnostics exactly once when
\* notify_inactive_students returned (neither its query nor its commit raised)
\* and LMS_ENABLE_DIAGNOSTICS is on or the number of users the run notified is
\* zero, and not at all otherwise.
C11_DiagnosticsIffFlagOrNothingNotified ==
    \A r \in Slots :
        run[r].pc = "done" =>
            run[r].diag =
                IF /\ run[r].raised \in {"none", "diag"}
                   /\ (env.LMS_ENABLE_DIAGNOSTICS \/ run[r].count = 0)
                THEN 1 ELSE 0

\* With the flag off, every dispatch of a run with candidates raised, and the
\* diagnostics ran.
C11_Witness ==
    \E r \in Slots :
        /\ run[r].pc = "done"
        /\ ~env.LMS_ENABLE_DIAGNOSTICS
        /\ run[r].selected # {}
        /\ run[r].failed = run[r].selected
        /\ run[r].diag = 1

\* C12: a step of a timer-driven run, a failing one included (the query, a mail
\* dispatch, the commit or the diagnostics raises), leaves the scheduler's state
\* and its registered job as they are; a run in which a step raised returns to
\* notify_task_wrapper, and the worker is then free for the next firing.
C12_FailedRunLeavesSchedulerRunning ==
    [][\A r \in TimerSlots :
          /\ (run[r].pc # "idle" /\ run'[r] # run[r]) =>
                (state' = state /\ jobs' = jobs)
          /\ (run[r].raised = "none" /\ run'[r].raised # "none") =>
                run'[r].pc = "done"
          /\ (run[r].pc = "done" /\ run'[r] # run[r]) => run'[r] = IdleRun]_vars

\* The commit of a timer-driven run raised; the scheduler is running, holds the
\* job, and a further firing is due.
C12_Witness ==
    \E r \in TimerSlots :
        /\ run[r].pc = "done"
        /\ run[r].raised = "commit"
        /\ state = STATE_RUNNING
        /\ \E i \in 1..Len(jobs) : jobs[i].id = JOB_ID
        /\ nruns < budget

\* C13: the manual trigger starts exactly one batch run whatever the state of
\* the scheduler; its response is sent only when that run has finished and
\* carries the count the run returned; and neither the request nor a step of
\* its run changes the scheduler's state or its registered job.
C13_ManualTriggerRunsOnce ==
    [][/\ trigger_notifications =>
             /\ nruns' = nruns + 1
             /\ run'["manual"].pc = "query"
             /\ state' = state /\ jobs' = jobs
       /\ (run["manual"].pc # "idle" /\ run'["manual"] # run["manual"]) =>
             (nruns' = nruns /\ state' = state /\ jobs' = jobs)
       /\ (run["manual"].pc = "done" /\ run'["manual"].pc = "idle") =>
             /\ resp'.op = "run-notifications"
             /\ resp'.code = 200
             /\ resp'.count = run["manual"].result
       /\ (resp'.op = "run-notifications" /\ resp' # resp) =>
             run["manual"].pc = "done"]_vars

\* With the scheduler stopped, the manual trigger answered that its run
\* notified one user.
C13_Witness ==
    /\ state = STATE_STOPPED
    /\ resp.op = "run-notifications"
    /\ resp.count = 1
    /\ Cardinality(notifications) = 1

\* C14: a scheduler-control request whose action is none of pause, resume and
\* restart is answered 400 with a detail that lists these three actions, and
\* changes neither the scheduler's state nor its registered job.
C14_InvalidActionRejected ==
    [][\A action \in InvalidActions :
          InvalidAction(action) =>
              /\ resp'.code = 400
              /\ resp'.valid = {"pause", "resume", "restart"}
              /\ state' = state
              /\ jobs' = jobs]_vars

\* An unknown action was rejected while the scheduler was paused with its job.
C14_Witness ==
    /\ resp.code = 400
    /\ resp.op \in InvalidActions
    /\ state = STATE_PAUSED
    /\ Len(jobs) = 1

\* C15: at no time are two timer-driven batch runs in execution, whatever the
\* sequence of firings, pause, resume and restart requests.
C15_NoConcurrentTimerRuns ==
    Cardinality({r \in TimerSlots : run[r].pc # "idle"}) <= 1

\* A timer-driven run is at its mail dispatch while the scheduler is running
\* with its job and a further firing would be followed.
C15_Witness ==
    /\ run["timer"].pc = "loop"
    /\ app = "up"
    /\ state = STATE_RUNNING
    /\ \E i \in 1..Len(jobs) : jobs[i].id = JOB_ID
    /\ nruns < budget
    /\ run["timer2"].pc = "idle"

\* C16: every batch run works on a session of its own, which no other run in
\* execution uses, open while notify_inactive_students and the diagnostics
\* run and closed when _notify_task_async is left, whether it returns the
\* count or the query, the commit or the diagnostics raised.
C16_OwnSessionAlwaysClosed ==
    /\ \A r \in Slots :
          /\ run[r].pc \in {"query", "loop", "commit", "returned"} =>
                (run[r].session = "open" /\ run[r].sid # 0)
          /\ run[r].pc = "done" => run[r].session = "closed"
    /\ \A r1, r2 \in Slots :
          (r1 # r2 /\ run[r1].pc # "idle" /\ run[r2].pc # "idle") =>
              run[r1].sid # run[r2].sid

\* A run whose commit raised has closed its session while another run is at
\* work on its own.
C16_Witness ==
    \E r1, r2 \in Slots :
        /\ run[r1].pc = "done" /\ run[r1].raised = "commit"
        /\ run[r1].session = "closed"
        /\ run[r2].pc = "loop" /\ run[r2].session = "open"

\* C17: no step of a batch run changes last_active or is_active of a user; so
\* the query of a run selects the candidates that the query of an earlier run
\* selected; and the commit of a run adds one Notification row for each user
\* the run notified, next to the rows of earlier runs.
C17_RunsDoNotChangeSelection ==
    [][/\ (\E r \in Slots : run'[r] # run[r]) => users' = users
       /\ \A r1, r2 \in Slots :
             (/\ r1 # r2
              /\ run[r1].pc \in {"loop", "commit", "returned", "done"}
              /\ run[r1].raised # "query"
              /\ run[r2].pc = "query"
              /\ run'[r2].pc \in {"loop", "returned"}) =>
                 run'[r2].selected = run[r1].selected
       /\ \A r \in Slots :
             (run[r].pc = "commit" /\ run'[r].committed) =>
                 /\ notifications \subseteq notifications'
                 /\ Cardinality(notifications') =
                       Cardinality(notifications) + Cardinality(run[r].sent)]_vars

\* Two runs selected the same user, and both committed a Notification for it.
C17_Witness ==
    \E r1, r2 \in Slots :
        /\ r1 # r2
        /\ run[r1].committed /\ run[r2].committed
        /\ run[r1].rid < run[r2].rid
        /\ run[r1].selected = {1} /\ run[r2].selected = {1}
        /\ notifications = {<<run[r1].rid, 1>>, <<run[r2].rid, 1>>}

\* C18: the commit of a batch run inserts exactly one Notification row for each
\* user the run notified; no other step of a run (its diagnostics included) and
\* no scheduler control changes the Notification rows; and no step removes or
\* alters a row: the set of Notification rows only grows.
C18_NotificationsOnlyGrow ==
    [][/\ notifications \subseteq notifications'
       /\ \A r \in Slots :
             (run[r].pc = "commit" /\ run'[r].committed) =>
                 /\ notifications' \ notifications =
                       {<<run[r].rid, u>> : u \in run[r].sent}
                 /\ Cardinality(notifications' \ notifications) = run[r].count
       /\ notifications' # notifications =>
             \E r \in Slots : run[r].pc = "commit" /\ run'[r].committed]_vars

\* After a second run committed and ran its diagnostics, with the scheduler
\* paused by a control request, the rows of both runs are in the table.
C18_Witness ==
    /\ Cardinality(notifications) = 2
    /\ state = STATE_PAUSED
    /\ \E r \in Slots :
          run[r].pc = "done" /\ run[r].committed /\ run[r].diag = 1 /\ run[r].rid = 2

\* What the users table holds as last_notification of user u: the value of
\* that column in the row, NULL when the row has no such value.
LastNotificationOf(tbl, u) ==
    IF "last_notification" \in DOMAIN tbl[u] THEN tbl[u].last_notification ELSE NULL

\* C19: when a batch run commits, the persisted last_notification of every
\* user it notified is the time of the run, and that of every other user is
\* what it was.
C19_LastNotificationIsRunTime ==
    [][\A r \in Slots :
          (run[r].pc = "commit" /\ run'[r].committed) =>
              \A u \in UserIds :
                  LastNotificationOf(users', u) =
                      IF u \in run[r].sent THEN now ELSE LastNotificationOf(users, u)]_vars

\* C20: every mail dispatch that a batch run attempted for a candidate, whether
\* it succeeded (and a Notification was added) or raised, has exactly one
\* persisted EmailLog row when the run has ended.
C20_EveryDispatchIsLogged ==
    \A r \in Slots :
        run[r].pc = "done" =>
            \A u \in run[r].sent \cup run[r].failed :
                <<run[r].rid, u>> \in email_logs

\* C21: whatever the user table (no user at all, no candidate, users whose
\* last_active is NULL), the values that a diagnostics run derives are computed
\* without a fault, total_users is the number of users, the percentage of users
\* missing last_active is 0 when there is no user, and a diagnosis that is not
\* interrupted writes its JSON report and its text report.
C21_DiagnosticsToleratesEmptyData ==
    [][\A r \in Slots :
          (run[r].pc = "returned" /\ RunsDiagnostics(run[r])) =>
              LET d == diagnose_activity(users, notifications, now, clock) IN
              /\ ~Faulty(d)
              /\ d.summary.total_users = Cardinality(DOMAIN users)
              /\ d.summary.total_users = 0 => d.percentage = 0
              /\ d.summary.users_missing_last_active > 0 =>
                    d.percentage \in 1..1000
              /\ (run'[r].pc = "done" /\ run'[r].raised = "none") =>
                    /\ <<"json", clock'>> \in reports'
                    /\ <<"txt", clock'>> \in reports']_vars

\* A run over the empty user table has run its diagnostics and the two reports
\* are written.
C21_Witness ==
    /\ DOMAIN users = {}
    /\ \E r \in Slots : run[r].pc = "done" /\ run[r].diag = 1 /\ run[r].raised = "none"
    /\ Cardinality(reports) = 2

\* The reports of one kind in the report directory.
ReportsOfKind(store, kind) == {f \in store : f[1] = kind}

\* C28: every diagnostics run that completes adds a JSON report and a text
\* report of its own to the report directory and leaves the reports of earlier
\* runs in place, so that k runs leave k reports of each kind, also when two
\* runs read the clock within the same second.
C28_EveryDiagnosisKeepsItsReports ==
    [][\A r \in Slots :
          (/\ run[r].pc = "returned"
           /\ run'[r].pc = "done"
           /\ run'[r].raised = "none"
           /\ run'[r].diag = run[r].diag + 1) =>
              /\ reports \subseteq reports'
              /\ Cardinality(ReportsOfKind(reports', "json")) =
                    Cardinality(ReportsOfKind(reports, "json")) + 1
              /\ Cardinality(ReportsOfKind(reports', "txt")) =
                    Cardinality(ReportsOfKind(reports, "txt")) + 1]_vars

\* C22: the user that POST /auth/register creates has role admin only if the
\* request asks for role admin and either the user table was empty and
\* FIRST_ADMIN_EMAIL is set and is the request's email, or the supplied
\* admin_key is ADMIN_REGISTRATION_KEY; in every other case, a request for
\* role instructor included, the stored role is student.
C22_AdminRoleNeedsAuthorization ==
    [][(register /\ DOMAIN users' # DOMAIN users) =>
          LET new == CHOOSE u \in DOMAIN users' : u \notin DOMAIN users
              authorized ==
                  /\ request'.role = "admin"
                  /\ \/ /\ DOMAIN users = {}
                        /\ env.FIRST_ADMIN_EMAIL # None
                        /\ env.FIRST_ADMIN_EMAIL = users'[new].email
                     \/ /\ request'.admin_key # None
                        /\ request'.admin_key =
                              (IF env.ADMIN_REGISTRATION_KEY = None
                               THEN "admin_setup_key" ELSE env.ADMIN_REGISTRATION_KEY)
          IN  /\ users'[new].role \in {"admin", "student"}
              /\ users'[new].role = "admin" => authorized
              /\ ~authorized => users'[new].role = "student"]_vars

\* The first user was stored as student and the second user registered as admin
\* with the registration key.
C22_Witness ==
    /\ DOMAIN users = {1, 2}
    /\ users[1].role = "student"
    /\ users[2].role = "admin"
    /\ request.op = "register"
    /\ request.admin_key = "k1"

\* C30: after a DELETE /admin/users/{id} or a PUT /admin/users/{id} request of
\* an admin, the is_active flag of that admin is still true.
C30_AdminStaysActive ==
    [][(delete_user \/ update_user) => users'[request'.admin].is_active]_vars

\* C23: when the daemon script has exited, it has executed run() exactly once if
\* it was started without arguments and not at all if it was started with
\* --diagnose.
C23_RunExecutedOnceOrNever ==
    daemon.pc = "exited" =>
        /\ daemon.argv = <<>> => daemon.runs = 1
        /\ DiagnoseOnly(daemon.argv) => daemon.runs = 0

\* C25: one call of the daemon's run() over a table whose inactivity query
\* selects N users persists N Notification records and reports the count N,
\* and runs the diagnostics when N is 0.
C25_DaemonRunNotifies ==
    [][daemon_run =>
          LET N == Cardinality(inactive_users(users, now)) IN
          /\ Cardinality(notifications') = Cardinality(notifications) + N
          /\ daemon'.reported[Len(daemon'.reported)] = PyInt(N)
          /\ N = 0 => daemon'.diag = daemon.diag + 1]_vars

\* C24: a batch run commits at most once, and only when no candidate is left to
\* process; the committed Notification rows of the run are at every moment
\* either none or the rows of all the users the run notified successfully.
C24_CommitOnceAndAtomic ==
    \A r \in Slots :
        run[r].rid # 0 =>
            /\ run[r].commits <= 1
            /\ run[r].commits = 1 => run[r].todo = {}
            /\ \/ RunRecords(run[r].rid) = {}
               \/ /\ run[r].todo = {}
                  /\ RunRecords(run[r].rid) = run[r].sent

\* A run has committed the rows of its two notified users.
C24_Witness ==
    \E r \in Slots :
        /\ run[r].committed
        /\ Cardinality(run[r].sent) = 2
        /\ Cardinality(RunRecords(run[r].rid)) = 2

\* C26: a batch run dispatches its email to a user only while the committed
\* is_active flag of that user is true.
C26_NoEmailToDeactivatedUser ==
    [][\A r \in Slots :
          \A u \in DOMAIN users :
              (u \in run'[r].sent /\ u \notin run[r].sent /\ run'[r].rid = run[r].rid)
                  => users[u].is_active]_vars

\* C27: when a POST /email/inactive/ request has ended, with or without an
\* error, the users whose is_active it has committed as false are the users
\* to whom it dispatched a reminder.
C27_DeactivatedEqualsEmailed ==
    route.pc = "done" => route.deactivated = route.emailed

\* C29: with ENVIRONMENT = "testing" the scheduler is stopped, has no job and
\* runs no timer-driven batch at every moment after start-up, whatever
\* controls the admin has used; and once the application has stopped, the
\* scheduler is stopped.
C29_NoSchedulerInTesting ==
    /\ env.ENVIRONMENT = "testing" =>
          /\ state = STATE_STOPPED
          /\ jobs = <<>>
          /\ RunningInstances = {}
    /\ app = "down" => state = STATE_STOPPED

====
